---- MODULE Spec2Model ----
(***************************************************************************)
(* Model of backend/main.py: the prompts table, the startup seeding of    *)
(* each service instance, and the five request handlers.  Every await on  *)
(* the database is one step, so handlers of different requests (and the   *)
(* seeding of different instances) interleave between storage statements. *)
(***************************************************************************)
EXTENDS Integers, Sequences, FiniteSets, TLC

VARIABLES prompts,    \* the rows of table "prompts", in insertion order
          id_seq,     \* the serial behind the primary key: the next id
          now,        \* the last value datetime.utcnow() returned
          inst,       \* per service instance: startup()/seed_database() position
          req         \* per request: handler, position, locals, response

vars == <<prompts, id_seq, now, inst, req>>

\* ------------------------------------------------------------------ bounds
MaxReq == 3          \* requests served in one behaviour, one after the other
MaxConc == 2         \* requests served in one behaviour when they overlap
CatalogSize == 2     \* entries of example_prompts kept by the model
MaxTime == 1         \* the clock reads 0..MaxTime
MaxPromptId == 3     \* clients ask for the ids 1..MaxPromptId
NumInst == 2         \* service instances sharing the store
MaxRuns == 2         \* times one instance is started

Inst == 1..NumInst
Req == 1..MaxReq

\* ------------------------------------------------------------------ strings
\* A string is a sequence of one-character strings.  An Optional value is a
\* sequence of length at most one: <<>> is None, <<v>> is the value v.
None == <<>>
Some(v) == <<v>>

s_T == <<"T">>
s_hello == <<"h", "i">>
s_X == <<"X">>
s_Y == <<"Y">>
s_tag == <<"a">>

\* ------------------------------------------------------------------ table
Row(id, title, prompt_text, category, tags, source, views, created_at) ==
    [id |-> id, title |-> title, prompt_text |-> prompt_text,
     category |-> category, tags |-> tags, source |-> source,
     views |-> views, created_at |-> created_at]

\* the lookup restricted to rows never viewed (WHERE id = :id AND views = 0)
fetch_one_unviewed(rows, id) ==
    IF \E k \in 1..Len(rows) : rows[k].id = id /\ rows[k].views = 0
    THEN Some(rows[CHOOSE k \in 1..Len(rows) : rows[k].id = id /\ rows[k].views = 0])
    ELSE None

\* prompts.select().where(prompts.c.id == id), fetch_one: the first such row,
\* or None
fetch_one(rows, id) ==
    IF \E k \in 1..Len(rows) : rows[k].id = id
    THEN Some(rows[CHOOSE k \in 1..Len(rows) :
                      /\ rows[k].id = id
                      /\ \A j \in 1..(k - 1) : rows[j].id # id])
    ELSE None

\* datetime.utcnow(): a reading not before the last one
utcnow == {t \in now..(now + 1) : t <= MaxTime}

\* ------------------------------------------------------------------ seeding
\* example_prompts: entry k of the catalog (title, prompt_text, category,
\* tags, source); the titles are pairwise distinct
Repeat(c, n) == [j \in 1..n |-> c]

example_prompts ==
    [k \in 1..CatalogSize |->
        [title |-> <<"S">> \o Repeat("s", k),
         prompt_text |-> s_hello,
         category |-> IF k % 2 = 1 THEN s_X ELSE s_Y,
         tags |-> <<s_tag>>,
         source |-> Some(<<"C">>)]]

\* the insert stamping the row with the previous reading of the clock
insert_stale(rows, id, v, t) ==
    Append(rows, Row(id, v.title, v.prompt_text, v.category, v.tags, v.source, 0, now))

\* prompts.insert().values(..., views=0, created_at=t): the row gets the next
\* value of the serial
insert(rows, id, v, t) ==
    Append(rows, Row(id, v.title, v.prompt_text, v.category, v.tags, v.source, 0, t))

idle == [op |-> "none", pc |-> "idle", inst |-> 0, args |-> <<>>, loc |-> <<>>,
         status |-> 0, body |-> <<>>]

\* an instance outside seed_database(): its locals count and k do not exist.
\* runs counts the calls of startup() (history only, nothing reads it but the
\* bound on restarts)
at_rest(pc, runs) == [pc |-> pc, count |-> 0, k |-> 0, runs |-> runs]

InFlight(i) == \E r \in Req : req[r].inst = i /\ req[r].pc \notin {"idle", "done"}

Init ==
    /\ prompts = <<>>
    /\ id_seq = 1
    /\ now = 0
    /\ inst = [i \in Inst |-> at_rest("down", 0)]
    /\ req = [r \in Req |-> idle]

\* startup(): database.connect(), then seed_database() is entered
startup(i) ==
    /\ inst[i].pc = "down"
    /\ inst[i].runs < MaxRuns
    /\ inst' = [inst EXCEPT ![i] = at_rest("seed_count", inst[i].runs + 1)]
    /\ UNCHANGED <<prompts, id_seq, now, req>>

\* seed_database() without the "if count > 0: return" test
seed_database_count_unchecked(i) ==
    /\ inst[i].pc = "seed_count"
    /\ inst' = [inst EXCEPT ![i] =
                  [@ EXCEPT !.pc = "seed_insert", !.count = Len(prompts), !.k = 1]]
    /\ UNCHANGED <<prompts, id_seq, now, req>>

\* seed_database(): count = SELECT count(*); return when count > 0
seed_database_count(i) ==
    /\ inst[i].pc = "seed_count"
    /\ LET count == Len(prompts) IN
       inst' = [inst EXCEPT ![i] =
                  IF count > 0
                  THEN at_rest("up", inst[i].runs)
                  ELSE [@ EXCEPT !.pc = "seed_insert", !.count = count, !.k = 1]]
    /\ UNCHANGED <<prompts, id_seq, now, req>>

\* seed_database(): one turn of the loop over example_prompts (k is the
\* position in it); after the last insert startup() returns and the instance
\* serves requests
seed_database_insert(i) ==
    /\ inst[i].pc = "seed_insert"
    /\ \E t \in utcnow :
         /\ prompts' = insert(prompts, id_seq, example_prompts[inst[i].k], t)
         /\ now' = t
    /\ id_seq' = id_seq + 1
    /\ inst' = [inst EXCEPT ![i] =
                  IF inst[i].k = CatalogSize
                  THEN at_rest("up", inst[i].runs)
                  ELSE [@ EXCEPT !.k = @ + 1]]
    /\ UNCHANGED req

\* shutdown() on a store that does not outlive the process: the table is lost
shutdown_drop(i) ==
    /\ inst[i].pc = "up"
    /\ ~InFlight(i)
    /\ inst' = [inst EXCEPT ![i] = at_rest("down", inst[i].runs)]
    /\ prompts' = <<>>
    /\ UNCHANGED <<id_seq, now, req>>

\* shutdown(): the instance stops once its requests are answered
shutdown(i) ==
    /\ inst[i].pc = "up"
    /\ ~InFlight(i)
    /\ inst' = [inst EXCEPT ![i] = at_rest("down", inst[i].runs)]
    /\ UNCHANGED <<prompts, id_seq, now, req>>

\* the process stops inside seed_database()'s loop: every insert already
\* awaited was executed on its own, outside any transaction, and stays in the
\* table
crash(i) ==
    /\ inst[i].pc = "seed_insert"
    /\ inst' = [inst EXCEPT ![i] = at_rest("down", inst[i].runs)]
    /\ UNCHANGED <<prompts, id_seq, now, req>>

\* ------------------------------------------------------------------ requests
\* requests accepted as soon as the process runs, startup() returned or not
Arrives_early(r, i) ==
    /\ req[r].pc = "idle"
    /\ \A q \in 1..(r - 1) : req[q].pc # "idle"
    /\ inst[i].pc # "down"

\* A request is accepted by an instance whose startup() has returned; requests
\* are numbered in the order they arrive
Arrives(r, i) ==
    /\ req[r].pc = "idle"
    /\ \A q \in 1..(r - 1) : req[q].pc # "idle"
    /\ inst[i].pc = "up"

Answer(q, status, body) == [q EXCEPT !.pc = "done", !.status = status, !.body = body]

\* class PromptCreate: title, prompt_text and category are required strings;
\* tags defaults to [] and source to None
PromptCreate_valid(b) == b.title # None /\ b.prompt_text # None /\ b.category # None

PromptCreate(b) ==
    [title |-> b.title[1], prompt_text |-> b.prompt_text[1], category |-> b.category[1],
     tags |-> IF b.tags = None THEN <<>> ELSE b.tags[1],
     source |-> b.source]

Body(title, prompt_text, category, tags, source) ==
    [title |-> title, prompt_text |-> prompt_text, category |-> category,
     tags |-> tags, source |-> source]

\* request bodies of POST /api/prompts: the spec's example, one with tags and a
\* source, one without its title
CreateBodies ==
    { Body(Some(s_T), Some(s_hello), Some(s_X), None, None),
      Body(Some(s_T), Some(s_T), Some(s_Y), Some(<<s_tag>>), Some(<<"C">>)),
      Body(None, Some(s_hello), Some(s_X), None, None) }

\* create_prompt, to the first await: the body is validated (422 when a
\* required field is missing), then the INSERT is executed and returns the id
create_prompt_insert(r, i, b) ==
    /\ Arrives(r, i)
    /\ IF ~PromptCreate_valid(b)
       THEN /\ req' = [req EXCEPT ![r] =
                         Answer([idle EXCEPT !.op = "create_prompt", !.inst = i,
                                             !.args = b], 422, None)]
            /\ UNCHANGED <<prompts, id_seq, now>>
       ELSE /\ \E t \in utcnow :
                 /\ prompts' = insert(prompts, id_seq, PromptCreate(b), t)
                 /\ now' = t
            /\ id_seq' = id_seq + 1
            /\ req' = [req EXCEPT ![r] =
                         [idle EXCEPT !.op = "create_prompt", !.inst = i, !.args = b,
                                      !.pc = "select",
                                      !.loc = [last_record_id |-> id_seq,
                                               rows_before |-> Len(prompts)]]]
    /\ UNCHANGED inst

\* create_prompt: fetch the row with id last_record_id and return dict(result)
create_prompt_select(r) ==
    /\ req[r].op = "create_prompt"
    /\ req[r].pc = "select"
    /\ LET result == fetch_one(prompts, req[r].loc.last_record_id) IN
       req' = [req EXCEPT ![r] =
                 Answer(@, IF result = None THEN 500 ELSE 200, result)]
    /\ UNCHANGED <<prompts, id_seq, now, inst>>

\* the UPDATE without its WHERE clause: every row is incremented
update_query_no_where(rows, prompt_id) ==
    [k \in 1..Len(rows) |-> [rows[k] EXCEPT !.views = @ + 1]]

\* the UPDATE stamping the row as well (SET views = views + 1, created_at = now)
update_query_touch(rows, prompt_id) ==
    [k \in 1..Len(rows) |->
        IF rows[k].id = prompt_id
        THEN [rows[k] EXCEPT !.views = @ + 1, !.created_at = now]
        ELSE rows[k]]

\* UPDATE prompts SET views = views + 1 WHERE id = prompt_id: one statement of
\* the store
update_query(rows, prompt_id) ==
    [k \in 1..Len(rows) |->
        IF rows[k].id = prompt_id
        THEN [rows[k] EXCEPT !.views = @ + 1]
        ELSE rows[k]]

\* the ids a client asks for
PromptIds == 1..MaxPromptId

\* get_prompt without the "if not result" test: the UPDATE runs for any id
get_prompt_select_unchecked(r, i, prompt_id) ==
    /\ Arrives(r, i)
    /\ req' = [req EXCEPT ![r] =
                 [idle EXCEPT !.op = "get_prompt", !.inst = i, !.args = prompt_id,
                              !.pc = "update",
                              !.loc = [result |-> fetch_one(prompts, prompt_id),
                                       views_before |-> -1]]]
    /\ UNCHANGED <<prompts, id_seq, now, inst>>

\* get_prompt, to the first await: result = fetch_one(query); 404 when there
\* is no such row
get_prompt_select(r, i, prompt_id) ==
    /\ Arrives(r, i)
    /\ LET result == fetch_one(prompts, prompt_id)
           q == [idle EXCEPT !.op = "get_prompt", !.inst = i, !.args = prompt_id]
       IN
       req' = [req EXCEPT ![r] =
                 IF result = None
                 THEN Answer(q, 404, None)
                 ELSE [q EXCEPT !.pc = "update",
                                !.loc = [result |-> result, views_before |-> -1]]]
    /\ UNCHANGED <<prompts, id_seq, now, inst>>

\* get_prompt with the increment computed in process memory from the row the
\* first SELECT returned (UPDATE ... SET views = <result.views + 1>)
get_prompt_update_in_memory(r) ==
    /\ req[r].op = "get_prompt"
    /\ req[r].pc = "update"
    /\ prompts' = [k \in 1..Len(prompts) |->
                     IF prompts[k].id = req[r].args
                     THEN [prompts[k] EXCEPT !.views = req[r].loc.result[1].views + 1]
                     ELSE prompts[k]]
    /\ LET cur == fetch_one(prompts, req[r].args) IN
       req' = [req EXCEPT ![r].pc = "reselect",
                          ![r].loc.views_before =
                              IF cur = None THEN -1 ELSE cur[1].views]
    /\ UNCHANGED <<id_seq, now, inst>>

\* get_prompt: execute the UPDATE.  views_before records the stored views the
\* statement found (history only, nothing reads it)
get_prompt_update(r) ==
    /\ req[r].op = "get_prompt"
    /\ req[r].pc = "update"
    /\ prompts' = update_query(prompts, req[r].args)
    /\ LET cur == fetch_one(prompts, req[r].args) IN
       req' = [req EXCEPT ![r].pc = "reselect",
                          ![r].loc.views_before =
                              IF cur = None THEN -1 ELSE cur[1].views]
    /\ UNCHANGED <<id_seq, now, inst>>

\* get_prompt returning the row of its first SELECT instead of reading again
get_prompt_reselect_stale(r) ==
    /\ req[r].op = "get_prompt"
    /\ req[r].pc = "reselect"
    /\ req' = [req EXCEPT ![r] = Answer(@, 200, req[r].loc.result)]
    /\ UNCHANGED <<prompts, id_seq, now, inst>>

\* get_prompt: updated_result = fetch_one(query); return dict(updated_result),
\* which raises (500) if the row is gone
get_prompt_reselect(r) ==
    /\ req[r].op = "get_prompt"
    /\ req[r].pc = "reselect"
    /\ LET updated_result == fetch_one(prompts, req[r].args) IN
       req' = [req EXCEPT ![r] =
                 Answer(@, IF updated_result = None THEN 500 ELSE 200, updated_result)]
    /\ UNCHANGED <<prompts, id_seq, now, inst>>

\* ------------------------------------------------------------------ list
\* str.lower() and the case folding of ILIKE, on the letters the model uses
lower(c) ==
    CASE c = "A" -> "a" [] c = "C" -> "c" [] c = "H" -> "h" [] c = "I" -> "i"
      [] c = "S" -> "s" [] c = "T" -> "t" [] c = "X" -> "x" [] c = "Y" -> "y"
      [] c = "Z" -> "z" [] OTHER -> c

str_lower(s) == [k \in 1..Len(s) |-> lower(s[k])]

RECURSIVE like(_, _)
\* s LIKE pat: % is any run of characters, _ any one character, and a
\* backslash takes the next character of the pattern literally
like(s, pat) ==
    IF pat = <<>> THEN s = <<>>
    ELSE IF Head(pat) = "%"
         THEN like(s, Tail(pat)) \/ (s # <<>> /\ like(Tail(s), pat))
    ELSE IF Head(pat) = "\\" /\ Len(pat) >= 2
         THEN s # <<>> /\ Head(s) = pat[2] /\ like(Tail(s), Tail(Tail(pat)))
    ELSE IF Head(pat) = "_"
         THEN s # <<>> /\ like(Tail(s), Tail(pat))
    ELSE s # <<>> /\ Head(s) = Head(pat) /\ like(Tail(s), Tail(pat))

\* column.ilike(pat): LIKE on the case-folded operands
ilike(s, pat) == like(str_lower(s), str_lower(pat))

RECURSIVE json_items(_)
json_items(tags) ==
    IF tags = <<>> THEN <<>>
    ELSE <<"\"">> \o Head(tags) \o <<"\"">>
         \o (IF Len(tags) > 1 THEN <<",", " ">> ELSE <<>>) \o json_items(Tail(tags))

\* cast(prompts.c.tags, String): the JSON text of the column, as json.dumps
\* wrote it
cast_tags(tags) == <<"[">> \o json_items(tags) \o <<"]">>

\* the WHERE clause of get_prompts: each filter is added only when its
\* parameter is truthy (neither None nor "")
where_category(row, category) ==
    (category # None /\ category[1] # <<>>) => row.category = category[1]

where_search(row, search) ==
    (search # None /\ search[1] # <<>>) =>
        LET search_term == <<"%">> \o str_lower(search[1]) \o <<"%">> IN
        \/ ilike(row.title, search_term)
        \/ ilike(row.prompt_text, search_term)
        \/ ilike(cast_tags(row.tags), search_term)

\* sort: str = Query("date", regex="^(date|popularity)$"): the values the
\* pattern matches whole
sort_valid(sort) == sort \in {"date", "popularity"}

\* the values the pattern matches up to a final newline: "$" of Python's re
\* matches there too, "$" of an engine that takes it as the end of the text
\* does not
sort_newline(sort) == sort \in {"date\n", "popularity\n"}

\* the outcomes the validation of sort against the pattern can have
sort_accepted(sort) ==
    IF sort_valid(sort) THEN {TRUE}
    ELSE IF sort_newline(sort) THEN {TRUE, FALSE}
    ELSE {FALSE}

\* limit: int = Query(100, le=500)
limit_le == 500
limit_default == 100

\* a limit that is never refused
limit_valid_any(limit) == TRUE

\* the bound of le= taken for 1000
limit_valid_le_1000(limit) == limit <= 1000

limit_valid(limit) == limit <= limit_le

\* the ORDER BY key without .desc(): the store orders ascending
order_key_asc(row, sort) == IF sort = "popularity" THEN -row.views ELSE -row.created_at

\* the ORDER BY key: views for "popularity", created_at otherwise
order_key(row, sort) == IF sort = "popularity" THEN row.views ELSE row.created_at

RECURSIVE Orders(_, _, _)
\* every order the store may return the rows with indices S in under
\* ORDER BY key DESC: rows with equal keys come in any order
Orders(rows, S, sort) ==
    IF S = {} THEN {<<>>}
    ELSE LET top == {k \in S : \A j \in S :
                        order_key(rows[j], sort) <= order_key(rows[k], sort)}
         IN UNION {{<<rows[k]>> \o o : o \in Orders(rows, S \ {k}, sort)} : k \in top}

\* query.limit(limit).offset(offset)
limit_offset(o, limit, offset) ==
    SubSeq(o, offset + 1, IF offset + limit < Len(o) THEN offset + limit ELSE Len(o))

ListQuery(category, search, sort, limit, offset) ==
    [category |-> category, search |-> search, sort |-> sort,
     limit |-> limit, offset |-> offset]

\* the indices of the rows the WHERE clause built from q keeps
where_or(rows, q) ==
    {k \in 1..Len(rows) : \/ where_category(rows[k], q.category)
                          \/ where_search(rows[k], q.search)}

where(rows, q) ==
    {k \in 1..Len(rows) : /\ where_category(rows[k], q.category)
                          /\ where_search(rows[k], q.search)}

\* the results fetch_all may return for the query built from q
get_prompts_results(rows, q) ==
    {limit_offset(o, q.limit, q.offset) : o \in Orders(rows, where(rows, q), q.sort)}

\* get_prompts: the parameters are validated (422), then one SELECT is
\* executed; the store refuses a negative LIMIT or OFFSET (500)
get_prompts(r, i, q) ==
    /\ Arrives(r, i)
    /\ \E accepted \in sort_accepted(q.sort) :
       LET a == [idle EXCEPT !.op = "get_prompts", !.inst = i, !.args = q] IN
       IF ~accepted \/ ~limit_valid(q.limit)
       THEN req' = [req EXCEPT ![r] = Answer(a, 422, <<>>)]
       ELSE IF q.limit < 0 \/ q.offset < 0
       THEN req' = [req EXCEPT ![r] = Answer(a, 500, <<>>)]
       ELSE \E results \in get_prompts_results(prompts, q) :
               req' = [req EXCEPT ![r] = Answer(a, 200, results)]
    /\ UNCHANGED <<prompts, id_seq, now, inst>>

\* ------------------------------------------------------------------ categories, stats
Categories(rows) == {rows[k].category : k \in 1..Len(rows)}

RECURSIVE Listings(_)
\* the orders in which the members of a set may be returned
Listings(S) ==
    IF S = {} THEN {<<>>}
    ELSE UNION {{<<x>> \o o : o \in Listings(S \ {x})} : x \in S}

\* get_categories without DISTINCT: the category of every row
get_categories_no_distinct(r, i) ==
    /\ Arrives(r, i)
    /\ req' = [req EXCEPT ![r] =
                 Answer([idle EXCEPT !.op = "get_categories", !.inst = i],
                        200, [k \in 1..Len(prompts) |-> prompts[k].category])]
    /\ UNCHANGED <<prompts, id_seq, now, inst>>

\* get_categories: SELECT DISTINCT category, in the order the store picks
get_categories(r, i) ==
    /\ Arrives(r, i)
    /\ \E categories \in Listings(Categories(prompts)) :
         req' = [req EXCEPT ![r] =
                   Answer([idle EXCEPT !.op = "get_categories", !.inst = i],
                          200, categories)]
    /\ UNCHANGED <<prompts, id_seq, now, inst>>

\* SELECT count(*) FROM prompts
count_query(rows) == Len(rows)

\* SELECT category, count(*) FROM prompts GROUP BY category, as the dict
\* get_stats builds from it
category_query(rows) ==
    [c \in Categories(rows) |-> Cardinality({k \in 1..Len(rows) : rows[k].category = c})]

\* get_stats, to the first await: total = fetch_val(count_query)
get_stats_count(r, i) ==
    /\ Arrives(r, i)
    /\ req' = [req EXCEPT ![r] =
                 [idle EXCEPT !.op = "get_stats", !.inst = i, !.pc = "category",
                              !.loc = [total |-> count_query(prompts)]]]
    /\ UNCHANGED <<prompts, id_seq, now, inst>>

\* get_stats: category_results = fetch_all(category_query); the response
get_stats_category(r) ==
    /\ req[r].op = "get_stats"
    /\ req[r].pc = "category"
    /\ req' = [req EXCEPT ![r] =
                 Answer(@, 200, [total_prompts |-> req[r].loc.total,
                                 categories |-> category_query(prompts)])]
    /\ UNCHANGED <<prompts, id_seq, now, inst>>

\* ------------------------------------------------------------------ specifications
\* the list requests of the concurrent system: the most viewed prompt, and
\* one asking for more than the limit allows
SpecQueries ==
    { ListQuery(None, None, "popularity", 1, 0),
      ListQuery(None, None, "date", 1000, 0) }

Conc == 1..MaxConc

\* The service: instances start (and seed) side by side, and up to MaxConc
\* requests overlap statement by statement.
Next ==
    \/ \E i \in Inst : startup(i)
    \/ \E i \in Inst : seed_database_count(i)
    \/ \E i \in Inst : seed_database_insert(i)
    \/ \E r \in Conc, i \in Inst, b \in CreateBodies : create_prompt_insert(r, i, b)
    \/ \E r \in Conc : create_prompt_select(r)
    \/ \E r \in Conc, i \in Inst, prompt_id \in PromptIds : get_prompt_select(r, i, prompt_id)
    \/ \E r \in Conc : get_prompt_update(r)
    \/ \E r \in Conc : get_prompt_reselect(r)
    \/ \E r \in Conc, i \in Inst, q \in SpecQueries : get_prompts(r, i, q)
    \/ \E r \in Conc, i \in Inst : get_categories(r, i)
    \/ \E r \in Conc, i \in Inst : get_stats_count(r, i)
    \/ \E r \in Conc : get_stats_category(r)

Spec == Init /\ [][Next]_vars

\* nothing is under way: no instance is inside startup() and no request is
\* between two of its statements
Quiet ==
    /\ \A i \in Inst : inst[i].pc \in {"down", "up"}
    /\ \A r \in Req : req[r].pc \in {"idle", "done"}

\* the instance of the specifications with a single one
One == {1}

\* One instance used by one client at a time: it is started or stopped, or a
\* request sent, only when nothing else is under way (a restart is shutdown
\* followed by startup).
NextSeq ==
    \/ \E i \in One : Quiet /\ startup(i)
    \/ \E i \in One : seed_database_count(i)
    \/ \E i \in One : seed_database_insert(i)
    \/ \E i \in One : Quiet /\ shutdown(i)
    \/ \E r \in Req, i \in One, b \in CreateBodies : Quiet /\ create_prompt_insert(r, i, b)
    \/ \E r \in Req : create_prompt_select(r)
    \/ \E r \in Req, i \in One, prompt_id \in PromptIds :
          Quiet /\ get_prompt_select(r, i, prompt_id)
    \/ \E r \in Req : get_prompt_update(r)
    \/ \E r \in Req : get_prompt_reselect(r)
    \/ \E r \in Req, i \in One, q \in SpecQueries : Quiet /\ get_prompts(r, i, q)
    \/ \E r \in Req, i \in One : Quiet /\ get_categories(r, i)
    \/ \E r \in Req, i \in One : Quiet /\ get_stats_count(r, i)
    \/ \E r \in Req : get_stats_category(r)

SpecSeq == Init /\ [][NextSeq]_vars

\* the list requests of SpecList: pages of the whole table in both orders,
\* and filtered lists with the default page
PageQueries ==
    { ListQuery(None, None, sort, limit, offset) :
        sort \in {"date", "popularity"},
        limit \in {-1, 0, 1, 2, limit_default, limit_le, limit_le + 1, 1000},
        offset \in {-1, 0, 1} }

FilterQueries ==
    { ListQuery(category, search, "date", limit_default, 0) :
        category \in {None, Some(<<>>), Some(s_X), Some(s_Y)},
        search \in {None, Some(<<>>), Some(s_hello), Some(<<"H">>), Some(<<"z">>),
                    Some(<<"_">>), Some(<<"%">>), Some(<<"a">>), Some(<<"[">>)} }

SortQueries ==
    { ListQuery(None, None, sort, limit_default, 0) :
        sort \in {"popularity", "views", "popularity\n"} }
    \cup { ListQuery(Some(s_X), None, "popularity", limit_default, 0),
           ListQuery(None, Some(s_tag), "popularity", limit_default, 0) }

ListQueries == PageQueries \cup FilterQueries \cup SortQueries

Listed == \E r \in Req : req[r].op = "get_prompts"

\* The single instance of SpecSeq, whose process may also stop while it seeds
NextCrash ==
    \/ NextSeq
    \/ \E i \in One : crash(i)

SpecCrash == Init /\ [][NextCrash]_vars

\* request bodies of POST /api/prompts whose title or prompt_text is the empty
\* string, or whose prompt_text is missing
EmptyBodies ==
    { Body(Some(<<>>), Some(s_hello), Some(s_X), None, None),
      Body(Some(s_T), Some(<<>>), Some(s_Y), None, None),
      Body(Some(s_T), None, Some(s_X), None, None) }

\* One client that creates prompts, one request at a time, on the single
\* instance
NextCreate ==
    \/ \E i \in One : Quiet /\ startup(i)
    \/ \E i \in One : seed_database_count(i)
    \/ \E i \in One : seed_database_insert(i)
    \/ \E r \in Req, i \in One, b \in CreateBodies \cup EmptyBodies :
          Quiet /\ create_prompt_insert(r, i, b)
    \/ \E r \in Req : create_prompt_select(r)

SpecCreate == Init /\ [][NextCreate]_vars

\* One client that creates and fetches prompts, then lists them once: the
\* list is the last request, so prompts is still the table it was run on.
NextList ==
    \/ \E i \in One : Quiet /\ startup(i)
    \/ \E i \in One : seed_database_count(i)
    \/ \E i \in One : seed_database_insert(i)
    \/ \E r \in Req, i \in One, b \in CreateBodies :
          Quiet /\ ~Listed /\ create_prompt_insert(r, i, b)
    \/ \E r \in Req : create_prompt_select(r)
    \/ \E r \in Req, i \in One, prompt_id \in PromptIds :
          Quiet /\ ~Listed /\ get_prompt_select(r, i, prompt_id)
    \/ \E r \in Req : get_prompt_update(r)
    \/ \E r \in Req : get_prompt_reselect(r)
    \/ \E r \in Req, i \in One, q \in ListQueries : Quiet /\ ~Listed /\ get_prompts(r, i, q)

SpecList == Init /\ [][NextList]_vars

\* ------------------------------------------------------------------ claims
\* the requests get_prompt has found the row of id for, and has incremented it for
Found(id) ==
    {r \in Req : /\ req[r].op = "get_prompt" /\ req[r].args = id
                 /\ req[r].pc # "idle" /\ req[r].status # 404}

Incremented(id) == {r \in Found(id) : req[r].pc \in {"reselect", "done"}}

Fetched(r) == req[r].op = "get_prompt" /\ req[r].pc = "done" /\ req[r].status = 200

\* C1: no lost updates.  Every row is inserted with views = 0; once the K
\* get_prompt requests that found a row have all completed, however their
\* statements interleaved, the stored views of the row is K.
C1_NoLostUpdates ==
    \A k \in 1..Len(prompts) :
        LET G == Found(prompts[k].id) IN
        (\A r \in G : req[r].pc = "done") => prompts[k].views = Cardinality(G)

\* C1 witness: two requests for the same id both ran their first SELECT before
\* either UPDATE, and both have completed.
C1_Witness ==
    \E r1, r2 \in Req :
        /\ r1 # r2 /\ Fetched(r1) /\ Fetched(r2)
        /\ req[r1].args = req[r2].args
        /\ req[r1].loc.result[1].views = 0 /\ req[r2].loc.result[1].views = 0

\* C2: the increment and the read-back are one atomic update-then-read: every
\* answered get_prompt returns the views its own UPDATE found, plus 1.
C2_UpdateThenReadAtomic ==
    \A r \in Req : Fetched(r) => req[r].body[1].views = req[r].loc.views_before + 1

\* C3: fetched one request at a time, the Nth successful get_prompt of an id
\* returns views = N, and the stored views of a row is the number of fetches
\* made of it.
C3_NthFetchReturnsN ==
    /\ \A r \in Req :
          Fetched(r) =>
            req[r].body[1].views =
                Cardinality({q \in 1..r : Fetched(q) /\ req[q].args = req[r].args})
    /\ \A k \in 1..Len(prompts) :
          prompts[k].views = Cardinality(Incremented(prompts[k].id))

\* C3 witness: the third fetch of a prompt has returned views = 3.
C3_Witness ==
    \E r \in Req :
        /\ Fetched(r) /\ req[r].body[1].views = 3
        /\ Cardinality(Found(req[r].args)) = 3

\* the rows holding entry k of the catalog
SeedCopies(k) == {j \in 1..Len(prompts) : prompts[j].title = example_prompts[k].title}

Seeded == (\A i \in Inst : inst[i].pc \in {"down", "up"}) /\ (\E i \in Inst : inst[i].pc = "up")

\* C4: instances that start side by side on the empty store leave the example
\* catalog in it exactly once: no entry is ever held twice, and when the
\* startups have returned every entry is held once.
C4_SeedExactlyOnce ==
    /\ \A k \in 1..CatalogSize : Cardinality(SeedCopies(k)) <= 1
    /\ Seeded => \A k \in 1..CatalogSize : Cardinality(SeedCopies(k)) = 1

\* entry k of the catalog as seed_database inserts it
IsSeedRow(row, k) ==
    /\ row.title = example_prompts[k].title
    /\ row.prompt_text = example_prompts[k].prompt_text
    /\ row.category = example_prompts[k].category
    /\ row.tags = example_prompts[k].tags
    /\ row.source = example_prompts[k].source
    /\ row.views = 0

\* C5: run on its own, seed_database inserts the catalog if and only if the
\* store holds no record when it counts: with a record it returns having
\* changed nothing, with none it goes on to insert entries 1..CatalogSize in
\* turn into the table it found empty, and returns after the last.
C5_SeedIffEmpty ==
    [][\A i \in Inst :
        /\ (inst[i].pc = "seed_count" /\ inst'[i].pc # "seed_count") =>
              /\ prompts' = prompts
              /\ inst'[i].pc = IF Len(prompts) = 0 THEN "seed_insert" ELSE "up"
        /\ (inst[i].pc = "seed_insert" /\ inst'[i] # inst[i]) =>
              /\ Len(prompts) = inst[i].k - 1
              /\ Len(prompts') = inst[i].k
              /\ \A k \in 1..inst[i].k : IsSeedRow(prompts'[k], k)
              /\ inst'[i].pc = IF inst[i].k = CatalogSize THEN "up" ELSE "seed_insert"
        /\ (inst[i].pc \notin {"seed_count", "seed_insert"} /\ inst'[i] # inst[i]) =>
              prompts' = prompts
      ]_vars

\* C5 witness: the instance was restarted on a store holding the catalog and a
\* record a client created, and its second startup has returned with the store
\* as it was.
C5_Witness ==
    /\ inst[1].runs = 2 /\ inst[1].pc = "up"
    /\ Len(prompts) = CatalogSize + 1
    /\ \A k \in 1..CatalogSize : Cardinality(SeedCopies(k)) = 1

RECURSIVE SumCounts(_)
\* sum(categories.values())
SumCounts(f) ==
    IF DOMAIN f = {} THEN 0
    ELSE LET c == CHOOSE c \in DOMAIN f : TRUE
         IN f[c] + SumCounts([d \in DOMAIN f \ {c} |-> f[d]])

\* C6: every stats response has total_prompts equal to the sum of its
\* per-category counts.
C6_StatsTotalIsSum ==
    \A r \in Req :
        (req[r].op = "get_stats" /\ req[r].pc = "done") =>
            req[r].body.total_prompts = SumCounts(req[r].body.categories)

\* C7: in every step every row stays in place, its views does not decrease,
\* and its views changes only in the UPDATE of a get_prompt request for its id.
C7_ViewsOnlyByGetPrompt ==
    [][/\ Len(prompts') >= Len(prompts)
       /\ \A k \in 1..Len(prompts) :
            /\ prompts'[k].id = prompts[k].id
            /\ prompts'[k].views >= prompts[k].views
            /\ prompts'[k].views # prompts[k].views =>
                 \E r \in Req : /\ req[r].op = "get_prompt"
                                /\ req[r].args = prompts[k].id
                                /\ req[r].pc = "update"
                                /\ req'[r].pc = "reselect"
      ]_vars

\* C7 witness: one row has been viewed while a row inserted after it, by a
\* request or by a seeding instance, has not.
C7_Witness ==
    \E k, j \in 1..Len(prompts) :
        /\ k < j /\ prompts[k].views > 0 /\ prompts[j].views = 0
        /\ \E r \in Req : req[r].pc = "done" /\ req[r].op \in {"get_prompts", "get_stats"}

\* C8: get_prompt for an id that no row has answers 404 in its first step and
\* changes no row; 404 is the answer of nothing else (a refused parameter or
\* body is 422).
C8_NotFound ==
    /\ [][\A r \in Req :
            (req[r].pc = "idle" /\ req'[r].op = "get_prompt"
               /\ fetch_one(prompts, req'[r].args) = None) =>
                 /\ req'[r].pc = "done" /\ req'[r].status = 404
                 /\ prompts' = prompts
        ]_vars
    /\ [](\A r \in Req :
            req[r].status = 404 =>
               /\ req[r].op = "get_prompt" /\ req[r].pc = "done"
               /\ req[r].body = None)

\* C8 witness: a request for an id without a row was answered 404 on a store
\* that holds rows.
C8_Witness ==
    \E r \in Req :
        /\ req[r].status = 404 /\ Len(prompts) > 0
        /\ fetch_one(prompts, req[r].args) = None

\* C9: a create_prompt request whose body is valid adds exactly one row and
\* returns it: the id is that of no row inserted before, views is 0,
\* created_at is a clock reading, title, prompt_text and category are the
\* request's, and tags and source are the request's or [] and None.
C9_CreateReturnsItsRecord ==
    \A r \in Req :
        (req[r].op = "create_prompt" /\ req[r].pc = "done"
           /\ PromptCreate_valid(req[r].args)) =>
        /\ req[r].status = 200
        /\ req[r].body # None
        /\ LET rec == req[r].body[1]
               b == req[r].args
               n == req[r].loc.rows_before
           IN /\ rec.id = req[r].loc.last_record_id
              /\ prompts[n + 1].id = rec.id
              /\ \A j \in 1..Len(prompts) : j # n + 1 => prompts[j].id # rec.id
              /\ rec.views = 0
              /\ rec.created_at \in 0..MaxTime
              /\ rec.title = b.title[1]
              /\ rec.prompt_text = b.prompt_text[1]
              /\ rec.category = b.category[1]
              /\ rec.tags = (IF b.tags = None THEN <<>> ELSE b.tags[1])
              /\ rec.source = b.source

Min(a, b) == IF a < b THEN a ELSE b
Max(a, b) == IF a < b THEN b ELSE a

Lists(r) == req[r].op = "get_prompts" /\ req[r].pc = "done"

\* C10 as claimed: a list request with limit=1000 succeeds with a result of
\* the same request with limit=500.
C10_LimitCapped ==
    \A r \in Req :
        (Lists(r) /\ req[r].args.limit = 1000) =>
            /\ req[r].status = 200
            /\ req[r].body \in get_prompts_results(prompts, [req[r].args EXCEPT !.limit = limit_le])

\* C10 as amended: a list request with limit=1000 is refused with 422 and
\* returns no record, while the same request with limit=500 (offset >= 0)
\* succeeds and returns min(500, M - offset) records, M the number of rows that
\* match: the limit is not capped.
C10_LimitRefused ==
    \A r \in Req :
        Lists(r) =>
            /\ req[r].args.limit = 1000 => req[r].status = 422 /\ req[r].body = <<>>
            /\ (req[r].args.limit = limit_le /\ req[r].args.offset >= 0) =>
                  /\ req[r].status = 200
                  /\ Len(req[r].body) =
                        Min(limit_le,
                            Max(0, Cardinality(where(prompts, req[r].args)) - req[r].args.offset))

\* C10 witness: a request with limit=1000 was refused on a store on which a
\* list would return rows.
C10_Witness ==
    \E r \in Req :
        /\ Lists(r) /\ req[r].args.limit = 1000 /\ req[r].status = 422
        /\ Len(prompts) > 0

\* C11: a list request whose limit exceeds 500 is refused with a validation
\* error (422), whatever its other parameters: it returns no record, and none
\* of the answers the query could give on the table.
C11_LimitAboveCapRejected ==
    \A r \in Req :
        (Lists(r) /\ req[r].args.limit > limit_le) =>
            /\ req[r].status = 422
            /\ req[r].body = <<>>
            /\ req[r].status \notin {200, 404, 500}

\* C11 witness: a request with limit = 501 was refused on a table whose rows
\* it would otherwise list.
C11_Witness ==
    \E r \in Req :
        /\ Lists(r) /\ req[r].args.limit = limit_le + 1 /\ req[r].status = 422
        /\ where(prompts, req[r].args) # {}

NonIncreasing(s) == \A k \in 1..(Len(s) - 1) : s[k] >= s[k + 1]

\* C12: a list answered with sort = "popularity" is non-increasing in views,
\* and one answered with sort = "date" (the default) is non-increasing in
\* created_at, whatever the table and the filters.
C12_ListSorted ==
    \A r \in Req :
        (Lists(r) /\ req[r].status = 200) =>
            /\ req[r].args.sort = "popularity" =>
                  NonIncreasing([k \in 1..Len(req[r].body) |-> req[r].body[k].views])
            /\ req[r].args.sort = "date" =>
                  NonIncreasing([k \in 1..Len(req[r].body) |-> req[r].body[k].created_at])

\* C12 witness: a popularity list put a row inserted later, with more views,
\* before an earlier row, on a table whose timestamps differ.
C12_Witness ==
    /\ \E r \in Req :
          /\ Lists(r) /\ req[r].status = 200 /\ req[r].args.sort = "popularity"
          /\ Len(req[r].body) >= 2
          /\ req[r].body[1].views > req[r].body[2].views
          /\ req[r].body[1].id > req[r].body[2].id
    /\ \E k, j \in 1..Len(prompts) : prompts[k].created_at < prompts[j].created_at

\* t occurs in s as a literal substring
Contains(s, t) == \E k \in 0..(Len(s) - Len(t)) : SubSeq(s, k + 1, k + Len(t)) = t

\* the term occurs, letter case aside, in the title, the prompt_text or the
\* JSON text of the tags of the row
Occurs(row, term) ==
    \/ Contains(str_lower(row.title), str_lower(term))
    \/ Contains(str_lower(row.prompt_text), str_lower(term))
    \/ Contains(str_lower(cast_tags(row.tags)), str_lower(term))

BodyIds(r) == {req[r].body[k].id : k \in 1..Len(req[r].body)}

WholePage(r) ==
    /\ Lists(r) /\ req[r].status = 200
    /\ req[r].args.offset = 0 /\ req[r].args.limit >= Len(prompts)

\* C13: with a search term the list holds a row if and only if the term occurs
\* in it as a literal substring, letter case aside, of the title, the
\* prompt_text or the rendering of the tags (and the row passes the category
\* filter).
C13_SearchLiteralSubstring ==
    \A r \in Req :
        (WholePage(r) /\ req[r].args.search # None) =>
            BodyIds(r) =
                {prompts[k].id : k \in
                    {j \in 1..Len(prompts) :
                        /\ where_category(prompts[j], req[r].args.category)
                        /\ Occurs(prompts[j], req[r].args.search[1])}}

\* C14: when category is supplied, the empty string included, the list holds
\* exactly the rows whose category equals it (and that pass the search
\* filter).
C14_CategoryExact ==
    \A r \in Req :
        (WholePage(r) /\ req[r].args.category # None) =>
            /\ \A k \in 1..Len(req[r].body) :
                  req[r].body[k].category = req[r].args.category[1]
            /\ BodyIds(r) =
                  {prompts[k].id : k \in
                      {j \in 1..Len(prompts) :
                          /\ prompts[j].category = req[r].args.category[1]
                          /\ where_search(prompts[j], req[r].args.search)}}

\* the ids of the rows each filter of the query q selects when applied alone
ByCategory(q) ==
    {prompts[k].id : k \in {j \in 1..Len(prompts) : where_category(prompts[j], q.category)}}

BySearch(q) ==
    {prompts[k].id : k \in {j \in 1..Len(prompts) : where_search(prompts[j], q.search)}}

\* C15: a list with both category and search returns exactly the rows that
\* the category filter alone and the search filter alone both return.
C15_FiltersIntersect ==
    \A r \in Req :
        (WholePage(r) /\ req[r].args.category # None /\ req[r].args.search # None) =>
            BodyIds(r) = ByCategory(req[r].args) \cap BySearch(req[r].args)

\* a list with both filters was answered, and its result is non-empty and
\* strictly smaller than the result of either filter alone
C15_Witness ==
    \E r \in Req :
        /\ WholePage(r)
        /\ req[r].args.category = Some(s_X)
        /\ req[r].args.search = Some(s_tag)
        /\ BodyIds(r) # {}
        /\ BodyIds(r) # ByCategory(req[r].args)
        /\ BodyIds(r) # BySearch(req[r].args)

\* the entries of the catalog the store holds
Held == {k \in 1..CatalogSize : SeedCopies(k) # {}}

\* C16: whenever no instance is inside seed_database, a stop between two of
\* its inserts followed by a restart included, the store holds none of the
\* catalog or all of it.
C16_NoPartialSeed ==
    (\A i \in Inst : inst[i].pc \in {"down", "up"}) =>
        Held \in {{}, 1..CatalogSize}

\* a field of a request body that is missing or the empty string
Blank(field) == field = None \/ field = Some(<<>>)

\* C17: every record has a non-empty title and a non-empty prompt_text, and a
\* create_prompt whose title or prompt_text is missing or empty is answered
\* 422.
C17_TitleAndTextNonEmpty ==
    /\ \A k \in 1..Len(prompts) : prompts[k].title # <<>> /\ prompts[k].prompt_text # <<>>
    /\ \A r \in Req :
          (/\ req[r].op = "create_prompt"
           /\ req[r].pc = "done"
           /\ Blank(req[r].args.title) \/ Blank(req[r].args.prompt_text)) =>
              req[r].status = 422

\* C18: no two records have the same id, and a step of a get_prompt request
\* changes nothing in the store but the views of the record it addresses.
C18_IdsUniqueAndFrame ==
    /\ [](\A k, j \in 1..Len(prompts) : prompts[k].id = prompts[j].id => k = j)
    /\ [][\A r \in Req :
            (req'[r] # req[r] /\ req'[r].op = "get_prompt") =>
                /\ Len(prompts') = Len(prompts)
                /\ id_seq' = id_seq
                /\ \A k \in 1..Len(prompts) :
                      \/ prompts'[k] = prompts[k]
                      \/ /\ prompts[k].id = req'[r].args
                         /\ prompts'[k] = [prompts[k] EXCEPT !.views = @ + 1]
         ]_vars

\* C18 witness: a get_prompt has been answered 200 on a store of several
\* records; the record it addressed, inserted at an earlier time than the
\* present one, is the record its first SELECT returned with views one higher.
C18_Witness ==
    \E r \in Req, k \in 1..Len(prompts) :
        /\ Fetched(r)
        /\ Len(prompts) >= 2
        /\ prompts[k].id = req[r].args
        /\ prompts[k] = [req[r].loc.result[1] EXCEPT !.views = @ + 1]
        /\ prompts[k].created_at < now

\* C19: the answer of get_categories lists every category some record of the
\* store carries, no other, and none twice.
C19_CategoriesExact ==
    [][\A r \in Req :
         (req[r].pc = "idle" /\ req'[r].op = "get_categories") =>
            /\ {req'[r].body[k] : k \in 1..Len(req'[r].body)} = Categories(prompts)
            /\ \A k, j \in 1..Len(req'[r].body) :
                  req'[r].body[k] = req'[r].body[j] => k = j
      ]_vars

\* C19 witness: get_categories has answered two categories and the store
\* holds more records than categories.
C19_Witness ==
    \E r \in Req :
        /\ req[r].op = "get_categories" /\ req[r].pc = "done"
        /\ Len(req[r].body) = 2
        /\ {req[r].body[k] : k \in 1..2} = Categories(prompts)
        /\ Len(prompts) > 2

\* C20: no step removes a record, so the number of records never decreases;
\* a startup that finds a record inserts nothing, and the store never holds an
\* entry of the catalog twice.
C20_SeedSkippedForGood ==
    /\ [](\A k \in 1..CatalogSize : Cardinality(SeedCopies(k)) <= 1)
    /\ [][/\ Len(prompts') >= Len(prompts)
          /\ \A k \in 1..Len(prompts) : prompts'[k].id = prompts[k].id
          /\ \A i \in Inst :
               (Len(prompts) > 0 /\ inst[i].pc = "seed_count" /\ inst'[i] # inst[i]) =>
                   /\ inst'[i].pc = "up"
                   /\ prompts' = prompts
         ]_vars

\* C20 witness: the instance is up after its second startup, a request has
\* been answered 200, and the store holds each entry of the catalog once.
C20_Witness ==
    /\ inst[1].pc = "up"
    /\ inst[1].runs = 2
    /\ \E r \in Req : req[r].pc = "done" /\ req[r].status = 200
    /\ \A k \in 1..CatalogSize : Cardinality(SeedCopies(k)) = 1

\* C21: an instance serves requests only after its startup() has returned:
\* every step of a request is taken on an instance that is up, and stays so,
\* and no request is in flight on an instance that is inside seed_database.
C21_SeedBeforeRequests ==
    /\ [](\A r \in Req :
            req[r].pc \notin {"idle", "done"} => inst[req[r].inst].pc = "up")
    /\ [][\A r \in Req :
            req'[r] # req[r] =>
                /\ inst[req'[r].inst].pc = "up"
                /\ inst'[req'[r].inst].pc = "up"
         ]_vars

\* C21 witness: an instance that is up has answered a request while the other
\* instance is still inserting the catalog.
C21_Witness ==
    \E r \in Req, i, j \in Inst :
        /\ req[r].pc = "done" /\ req[r].status = 200 /\ req[r].inst = i
        /\ inst[i].pc = "up"
        /\ inst[j].pc = "seed_insert" /\ inst[j].k > 1

\* the number of rows matching the filters of the list request r
Matching(r) == Cardinality(where(prompts, req[r].args))

\* C22: a list whose limit L passes validation and whose offset o is >= 0
\* returns exactly min(L, max(0, M - o)) records, M the number of matching
\* rows, none twice; limit=0 returns the empty sequence and the default limit
\* at most 100 records.
C22_PageSize ==
    \A r \in Req :
        (/\ Lists(r)
         /\ sort_valid(req[r].args.sort)
         /\ limit_valid(req[r].args.limit)
         /\ req[r].args.offset >= 0) =>
            /\ req[r].status = 200
            /\ Len(req[r].body) =
                  Min(req[r].args.limit, Max(0, Matching(r) - req[r].args.offset))
            /\ Cardinality(BodyIds(r)) = Len(req[r].body)
            /\ req[r].args.limit = 0 => req[r].body = <<>>
            /\ req[r].args.limit = limit_default => Len(req[r].body) <= limit_default

\* C23: a list whose sort is neither "date" nor "popularity" is refused with a
\* validation error and returns no record; an answered list has one of the two
\* modes and is ordered by it.
C23_SortValidated ==
    \A r \in Req :
        Lists(r) =>
            /\ req[r].args.sort \notin {"date", "popularity"} =>
                  req[r].status = 422 /\ req[r].body = <<>>
            /\ req[r].status = 200 =>
                  /\ req[r].args.sort \in {"date", "popularity"}
                  /\ req[r].args.sort = "date" =>
                        \A k \in 1..(Len(req[r].body) - 1) :
                            req[r].body[k].created_at >= req[r].body[k + 1].created_at
                  /\ req[r].args.sort = "popularity" =>
                        \A k \in 1..(Len(req[r].body) - 1) :
                            req[r].body[k].views >= req[r].body[k + 1].views

\* C24: a get_prompt whose first lookup found the record finds it again: while
\* the request is under way the record is in the store, its UPDATE finds it,
\* the request is answered 200 with the record, never 500, and the stored
\* views of a record is the number of such requests past their UPDATE.
C24_RereadFinds ==
    /\ \A r \in Req :
          (req[r].op = "get_prompt" /\ req[r].pc # "idle" /\ req[r].status # 404) =>
              /\ fetch_one(prompts, req[r].args) # None
              /\ req[r].pc \in {"reselect", "done"} => req[r].loc.views_before >= 0
              /\ req[r].pc = "done" =>
                    /\ req[r].status = 200
                    /\ req[r].body # None
                    /\ req[r].body[1].id = req[r].args
                    /\ req[r].body[1].views > req[r].loc.result[1].views
    /\ \A k \in 1..Len(prompts) :
          prompts[k].views = Cardinality(Incremented(prompts[k].id))

\* C24 witness: a get_prompt was answered with views two above what its first
\* lookup read: another request's UPDATE of the same record ran between its two
\* reads.
C24_Witness ==
    \E r \in Req :
        /\ Fetched(r)
        /\ req[r].body[1].views >= req[r].loc.result[1].views + 2

\* C25: every record seed_database inserts has views = 0 and the time read at
\* its insertion; when the seeding of an empty store returns, the store holds
\* CatalogSize records, and get_stats asked first thing answers that total
\* with per-category counts that sum to it.
C25_SeededRows ==
    /\ [][\A i \in Inst :
            (inst[i].pc = "seed_insert" /\ inst'[i] # inst[i]) =>
                /\ Len(prompts') = Len(prompts) + 1
                /\ prompts'[Len(prompts')].views = 0
                /\ prompts'[Len(prompts')].created_at = now'
                /\ now' >= now
                /\ inst'[i].pc = "up" =>
                      /\ Len(prompts') = CatalogSize
                      /\ SumCounts(category_query(prompts')) = CatalogSize
         ]_vars
    /\ []((req[1].op = "get_stats" /\ req[1].pc = "done") =>
            /\ req[1].body.total_prompts = CatalogSize
            /\ SumCounts(req[1].body.categories) = CatalogSize)

\* C25 witness: the seeding has returned, its records were inserted at
\* different times, and get_stats, the first request, has been answered.
C25_Witness ==
    /\ inst[1].pc = "up" /\ inst[1].runs = 1
    /\ Len(prompts) = CatalogSize
    /\ \E k, j \in 1..Len(prompts) : prompts[k].created_at < prompts[j].created_at
    /\ req[1].op = "get_stats" /\ req[1].pc = "done"
    /\ req[2].pc = "idle"

====
